---- MODULE Spec2Model ----
(***************************************************************************)
(* Model of the QGIS plugin's process driver of nadi-gis:                  *)
(*   src/qgis/nadi/nadi_exe.py      qgis_nadi_proc, stdout_handlr,         *)
(*                                  stderr_handlr                          *)
(*   src/qgis/nadi/nadi_network.py  NadiNetwork.processAlgorithm           *)
(*   src/qgis/nadi/nadi_order.py    NadiOrder.processAlgorithm             *)
(*                                                                         *)
(* Text is a sequence of one-character strings.  A message the plugin      *)
(* itself passes to the feedback object ("Output:", "Completed", ...) is a *)
(* one-element sequence holding the whole message, so that it can never    *)
(* be confused with text that came from the process.                       *)
(***************************************************************************)
EXTENDS Integers, Sequences, FiniteSets, TLC

VARIABLES
    pc,            \* position of processAlgorithm
    canceled,      \* feedback.isCanceled()
    launched,      \* whether proc.run started the process
    res,           \* value returned by proc.run(feedback)
    stdoutBuf,     \* stdout_handlr._buffer
    stderrBuf,     \* stderr_handlr._buffer
    curr,          \* stdout_handlr._curr
    events,        \* every call made on feedback, in order
    outRecv,       \* history: all text delivered so far to stdout_handlr
    errRecv,       \* history: all text delivered so far to stderr_handlr
    outLines,      \* history: the lines stdout_handlr's loop has iterated over
    errLines,      \* history: the lines stderr_handlr's loop has iterated over
    cancelAt,      \* history: position when cancel was requested, and the buffers
                   \*          of the running process's handlers at that time
    exitAt,        \* history: isCanceled() and buffers when proc.run returned
    again          \* history: an earlier invocation has been made

vars == <<pc, canceled, launched, res, stdoutBuf, stderrBuf, curr, events,
          outRecv, errRecv, outLines, errLines, cancelAt, exitAt, again>>

-----------------------------------------------------------------------------
(* Bounds *)

\* Total number of characters the process writes on both streams in one run.
MaxRecv == 4

\* Longest line given to the classifier in SpecClassify.
MaxLineLen == 4

\* Number of lines given to the classifier in SpecFeed, and their greatest length.
MaxFed == 2
MaxFedLen == 3

-----------------------------------------------------------------------------
(* Text *)

NL == "\n"

\* The characters the process writes in Spec.
Chars == {"a", ":", "1", NL}

\* The characters of a line in SpecClassify.
LineChars == {"a", " ", ":", "1", "0", "-"}

\* The characters of a line in SpecFeed.
FedChars == {"a", ":", "1"}

\* What str.strip() removes.
Whitespace == {" ", NL}

Digits == {"0", "1"}

RECURSIVE SeqsUpTo(_, _)
SeqsUpTo(S, n) ==
    IF n = 0 THEN {<<>>}
    ELSE LET shorter == SeqsUpTo(S, n - 1)
         IN  shorter \cup {Append(s, c) : s \in {t \in shorter : Len(t) = n - 1}, c \in S}

\* str.endswith('\n')
endswith(s, c) == Len(s) > 0 /\ s[Len(s)] = c

\* c in s
contains(s, c) == \E i \in 1..Len(s) : s[i] = c

\* index of the first / last occurrence of c in s (s contains c)
find(s, c) == CHOOSE i \in 1..Len(s) : s[i] = c /\ \A j \in 1..(i - 1) : s[j] # c
rfind(s, c) == CHOOSE i \in 1..Len(s) : s[i] = c /\ \A j \in (i + 1)..Len(s) : s[j] # c

\* str.rsplit(c, maxsplit=1): a list of one or two parts
rsplit(s, c) ==
    IF contains(s, c)
    THEN <<SubSeq(s, 1, rfind(s, c) - 1), SubSeq(s, rfind(s, c) + 1, Len(s))>>
    ELSE <<s>>

\* str.split(c, maxsplit=1): a list of one or two parts
split1(s, c) ==
    IF contains(s, c)
    THEN <<SubSeq(s, 1, find(s, c) - 1), SubSeq(s, find(s, c) + 1, Len(s))>>
    ELSE <<s>>

\* str.split(c): every part, at least one
RECURSIVE split(_, _)
split(s, c) ==
    IF contains(s, c)
    THEN <<SubSeq(s, 1, find(s, c) - 1)>> \o split(SubSeq(s, find(s, c) + 1, Len(s)), c)
    ELSE <<s>>

RECURSIVE lstrip(_)
lstrip(s) == IF Len(s) > 0 /\ s[1] \in Whitespace THEN lstrip(Tail(s)) ELSE s

RECURSIVE rstrip(_)
rstrip(s) ==
    IF Len(s) > 0 /\ s[Len(s)] \in Whitespace THEN rstrip(SubSeq(s, 1, Len(s) - 1)) ELSE s

\* str.strip()
strip(s) == rstrip(lstrip(s))

DigitValue(c) == IF c = "1" THEN 1 ELSE 0

\* digits, single underscores allowed between two digits
IsDigits(s) ==
    /\ Len(s) > 0
    /\ \A i \in 1..Len(s) :
          \/ s[i] \in Digits
          \/ s[i] = "_" /\ i > 1 /\ i < Len(s) /\ s[i - 1] \in Digits /\ s[i + 1] \in Digits

RECURSIVE DigitsValue(_)
DigitsValue(s) ==
    IF Len(s) = 0 THEN 0
    ELSE IF s[Len(s)] = "_" THEN DigitsValue(SubSeq(s, 1, Len(s) - 1))
    ELSE 10 * DigitsValue(SubSeq(s, 1, Len(s) - 1)) + DigitValue(s[Len(s)])

Unsigned(s) == IF Len(s) > 0 /\ s[1] \in {"+", "-"} THEN Tail(s) ELSE s

\* int(s) does not raise ValueError
IsInt(s) == IsDigits(Unsigned(strip(s)))

\* int(s)
ParseInt(s) ==
    IF Len(strip(s)) > 0 /\ strip(s)[1] = "-"
    THEN 0 - DigitsValue(Unsigned(strip(s)))
    ELSE DigitsValue(Unsigned(strip(s)))

-----------------------------------------------------------------------------
(* Calls on feedback *)

Ev(kind, text, num) == [kind |-> kind, text |-> text, num |-> num]

SetProgressText(label) == Ev("phase", label, <<>>)
SetProgress(n) == Ev("progress", <<>>, <<n>>)
PushInfo(text) == Ev("info", text, <<>>)
PushWarning(text) == Ev("warning", text, <<>>)
PushCommandInfo(text) == Ev("cmdinfo", text, <<>>)
ReportError(text) == Ev("error", text, <<>>)

-----------------------------------------------------------------------------
(* nadi_exe.py: the two stream handlers *)

\* ClassifyLine with the split made on the line as it is, not on line.strip().
ClassifyLineUnstripped(line, cur) ==
    LET parts == split1(line, ":")
    IN  IF Len(parts) # 2
        THEN [curr |-> cur, out |-> <<PushInfo(line)>>]
        ELSE LET label == parts[1]
                 progress == parts[2]
                 phase == IF label # cur THEN <<SetProgressText(label)>> ELSE <<>>
             IN  IF IsInt(progress)
                 THEN [curr |-> label, out |-> phase \o <<SetProgress(ParseInt(progress))>>]
                 ELSE [curr |-> label, out |-> phase \o <<PushInfo(line)>>]

\* ClassifyLine with setProgressText called for every line that has a colon.
ClassifyLineAlwaysAnnounces(line, cur) ==
    LET parts == split1(strip(line), ":")
    IN  IF Len(parts) # 2
        THEN [curr |-> cur, out |-> <<PushInfo(line)>>]
        ELSE LET label == parts[1]
                 progress == parts[2]
                 phase == <<SetProgressText(label)>>
             IN  IF IsInt(progress)
                 THEN [curr |-> label, out |-> phase \o <<SetProgress(ParseInt(progress))>>]
                 ELSE [curr |-> label, out |-> phase \o <<PushInfo(line)>>]

\* One pass of the body of stdout_handlr's for loop over `line`, with
\* stdout_handlr._curr = cur: the calls made and the new _curr.
\* setProgressText and the assignment to _curr come before int(progress), so
\* they have happened when int raises ValueError.
ClassifyLine(line, cur) ==
    LET parts == split1(strip(line), ":")
    IN  IF Len(parts) # 2
        THEN [curr |-> cur, out |-> <<PushInfo(line)>>]
        ELSE LET label == parts[1]
                 progress == parts[2]
                 phase == IF label # cur THEN <<SetProgressText(label)>> ELSE <<>>
             IN  IF IsInt(progress)
                 THEN [curr |-> label, out |-> phase \o <<SetProgress(ParseInt(progress))>>]
                 ELSE [curr |-> label, out |-> phase \o <<PushInfo(line)>>]

\* stdout_handlr's for loop over the list `lines`
RECURSIVE StdoutLoop(_, _)
StdoutLoop(lines, cur) ==
    IF lines = <<>> THEN [curr |-> cur, out |-> <<>>]
    ELSE LET first == ClassifyLine(Head(lines), cur)
             rest == StdoutLoop(Tail(lines), first.curr)
         IN  [curr |-> rest.curr, out |-> first.out \o rest.out]

\* StderrLoop with the body of stdout_handlr's loop in it.
StderrLoopClassifying(lines) == StdoutLoop(lines, <<>>).out

\* stderr_handlr's for loop over the list `lines`
StderrLoop(lines) == [i \in 1..Len(lines) |-> PushWarning(lines[i])]

\* Buffered with the pending text overwritten by the chunk when there is no
\* newline.
BufferedForgetsPending(buf, chunk) ==
    LET lines == buf \o chunk
    IN  IF ~endswith(lines, NL)
        THEN IF Len(rsplit(lines, NL)) = 2
             THEN [emit |-> TRUE, lines |-> rsplit(lines, NL)[1], buf |-> rsplit(lines, NL)[2]]
             ELSE [emit |-> FALSE, lines |-> <<>>, buf |-> chunk]
        ELSE [emit |-> TRUE, lines |-> lines, buf |-> buf]

\* Buffered with split in the place of rsplit: the text is cut at its first
\* newline.
BufferedSplitFirst(buf, chunk) ==
    LET lines == buf \o chunk
    IN  IF ~endswith(lines, NL)
        THEN IF Len(split1(lines, NL)) = 2
             THEN [emit |-> TRUE, lines |-> split1(lines, NL)[1], buf |-> split1(lines, NL)[2]]
             ELSE [emit |-> FALSE, lines |-> <<>>, buf |-> lines]
        ELSE [emit |-> TRUE, lines |-> lines, buf |-> buf]

\* The buffering both handlers start with: the text to split into lines
\* (emit = FALSE: the early return) and the new _buffer.  When the text ends
\* with a newline the code assigns nothing to _buffer, which keeps its value.
Buffered(buf, chunk) ==
    LET lines == buf \o chunk
    IN  IF ~endswith(lines, NL)
        THEN IF Len(rsplit(lines, NL)) = 2
             THEN [emit |-> TRUE, lines |-> rsplit(lines, NL)[1], buf |-> rsplit(lines, NL)[2]]
             ELSE [emit |-> FALSE, lines |-> <<>>, buf |-> lines]
        ELSE [emit |-> TRUE, lines |-> lines, buf |-> buf]

\* lines.strip().split('\n'): the list a handler's for loop iterates over
LoopLines(b) == IF b.emit THEN split(strip(b.lines), NL) ELSE <<>>

\* stdout_handlr(bytes_array)
StdoutHandlr(buf, cur, chunk) ==
    LET b == Buffered(buf, chunk)
        loop == StdoutLoop(LoopLines(b), cur)
    IN  [buf |-> b.buf, curr |-> loop.curr, lines |-> LoopLines(b), out |-> loop.out]

\* stderr_handlr(bytes_array)
StderrHandlr(buf, chunk) ==
    LET b == Buffered(buf, chunk)
    IN  [buf |-> b.buf, lines |-> LoopLines(b), out |-> StderrLoop(LoopLines(b))]

-----------------------------------------------------------------------------
(* processAlgorithm *)

\* Values proc.run(feedback) returns.
ExitCodes == {0, 1, 2}

\* ReportCalls with `if` where the code has `elif`.
ReportCallsNoElif(isCanceled, r) ==
    (IF isCanceled THEN <<PushInfo(<<"Cancelled">>)>> ELSE <<>>)
    \o (IF r # 0 THEN <<ReportError(<<"Error">>)>> ELSE <<PushInfo(<<"Completed">>)>>)

\* ReportCalls with the exit code tested before feedback.isCanceled().
ReportCallsExitFirst(isCanceled, r) ==
    IF r # 0 THEN <<ReportError(<<"Error">>)>>
    ELSE IF isCanceled THEN <<PushInfo(<<"Cancelled">>)>>
    ELSE <<PushInfo(<<"Completed">>)>>

\* The if / elif / else after proc.run: the calls made on feedback.
ReportCalls(isCanceled, r) ==
    IF isCanceled THEN <<PushInfo(<<"Cancelled">>)>>
    ELSE IF r # 0 THEN <<ReportError(<<"Error">>)>>
    ELSE <<PushInfo(<<"Completed">>)>>

NoCancel == [pc |-> "none", outBuf |-> <<>>, errBuf |-> <<>>, nOut |-> 0, nErr |-> 0]
NoExit == [canceled |-> FALSE, outBuf |-> <<>>, errBuf |-> <<>>, nEvents |-> 0]

Init ==
    /\ pc = "start"
    /\ canceled = FALSE
    /\ launched = FALSE
    /\ res = 0
    /\ stdoutBuf = <<>>
    /\ stderrBuf = <<>>
    /\ curr = <<>>
    /\ events = <<>>
    /\ outRecv = <<>>
    /\ errRecv = <<>>
    /\ outLines = <<>>
    /\ errLines = <<>>
    /\ cancelAt = NoCancel
    /\ exitAt = NoExit
    /\ again = FALSE

\* QgisNadiProc without the three assignments that initialise the handlers.
QgisNadiProcNoReset ==
    /\ pc = "start"
    /\ pc' = "ready"
    /\ events' = events \o << PushInfo(<<"Running Nadi Command:">>),
                              PushCommandInfo(<<"nadi_bin">>),
                              PushCommandInfo(<<"cmd">>),
                              PushInfo(<<"Output:">>) >>
    /\ UNCHANGED <<canceled, launched, res, stdoutBuf, stderrBuf, curr, outRecv, errRecv,
                   outLines, errLines, cancelAt, exitAt, again>>

\* qgis_nadi_proc(feedback, cmd): the handlers' state is initialised and the
\* command is announced before the process is run.
QgisNadiProc ==
    /\ pc = "start"
    /\ pc' = "ready"
    /\ stdoutBuf' = <<>>
    /\ stderrBuf' = <<>>
    /\ curr' = <<>>
    /\ events' = events \o << PushInfo(<<"Running Nadi Command:">>),
                              PushCommandInfo(<<"nadi_bin">>),
                              PushCommandInfo(<<"cmd">>),
                              PushInfo(<<"Output:">>) >>
    /\ UNCHANGED <<canceled, launched, res, outRecv, errRecv, outLines, errLines,
                   cancelAt, exitAt, again>>

\* proc.run(feedback) has started the process.
RunStarted ==
    /\ pc = "ready"
    /\ pc' = "running"
    /\ launched' = TRUE
    /\ UNCHANGED <<canceled, res, stdoutBuf, stderrBuf, curr, events, outRecv, errRecv,
                   outLines, errLines, cancelAt, exitAt, again>>

\* proc.run(feedback) could not start the process: it returns a failure code
\* and no handler has been called.
RunLaunchFailed ==
    /\ pc = "ready"
    /\ pc' = "returned"
    /\ \E code \in ExitCodes \ {0} : res' = code
    /\ exitAt' = [canceled |-> canceled, outBuf |-> stdoutBuf, errBuf |-> stderrBuf,
                  nEvents |-> Len(events)]
    /\ UNCHANGED <<canceled, launched, stdoutBuf, stderrBuf, curr, events, outRecv, errRecv,
                   outLines, errLines, cancelAt, again>>

\* The process wrote `chunk` on its standard output: proc.run calls
\* stdout_handlr, which does not look at feedback.isCanceled().
StdoutChunk ==
    /\ pc = "running"
    /\ \E chunk \in SeqsUpTo(Chars, MaxRecv - Len(outRecv) - Len(errRecv)) :
          LET h == StdoutHandlr(stdoutBuf, curr, chunk)
          IN  /\ stdoutBuf' = h.buf
              /\ curr' = h.curr
              /\ events' = events \o h.out
              /\ outLines' = outLines \o h.lines
              /\ outRecv' = outRecv \o chunk
    /\ UNCHANGED <<pc, canceled, launched, res, stderrBuf, errRecv, errLines, cancelAt,
                   exitAt, again>>

\* StderrChunk with stderr_handlr still called after processAlgorithm's report.
StderrChunkAfterReport ==
    /\ pc \in {"running", "done"}
    /\ \E chunk \in SeqsUpTo(Chars, MaxRecv - Len(outRecv) - Len(errRecv)) :
          LET h == StderrHandlr(stderrBuf, chunk)
          IN  /\ stderrBuf' = h.buf
              /\ events' = events \o h.out
              /\ errLines' = errLines \o h.lines
              /\ errRecv' = errRecv \o chunk
    /\ UNCHANGED <<pc, canceled, launched, res, stdoutBuf, curr, outRecv, outLines,
                   cancelAt, exitAt, again>>

\* The process wrote `chunk` on its standard error: proc.run calls stderr_handlr.
StderrChunk ==
    /\ pc = "running"
    /\ \E chunk \in SeqsUpTo(Chars, MaxRecv - Len(outRecv) - Len(errRecv)) :
          LET h == StderrHandlr(stderrBuf, chunk)
          IN  /\ stderrBuf' = h.buf
              /\ events' = events \o h.out
              /\ errLines' = errLines \o h.lines
              /\ errRecv' = errRecv \o chunk
    /\ UNCHANGED <<pc, canceled, launched, res, stdoutBuf, curr, outRecv, outLines,
                   cancelAt, exitAt, again>>

\* The process ended (by itself, or terminated after a cancel request) and
\* proc.run returns its exit code.  Nothing is done with the handlers' buffers.
RunReturned ==
    /\ pc = "running"
    /\ pc' = "returned"
    /\ \E code \in ExitCodes : res' = code
    /\ exitAt' = [canceled |-> canceled, outBuf |-> stdoutBuf, errBuf |-> stderrBuf,
                  nEvents |-> Len(events)]
    /\ UNCHANGED <<canceled, launched, stdoutBuf, stderrBuf, curr, events, outRecv, errRecv,
                   outLines, errLines, cancelAt, again>>

\* The user cancels the algorithm (feedback.cancel(), from another thread) at
\* any time before the status is reported.
Cancel ==
    /\ pc \in {"start", "ready", "running", "returned"}
    /\ ~canceled
    /\ canceled' = TRUE
    /\ cancelAt' = [pc |-> pc,
                    outBuf |-> IF pc = "running" THEN stdoutBuf ELSE <<>>,
                    errBuf |-> IF pc = "running" THEN stderrBuf ELSE <<>>,
                    nOut |-> Len(outLines), nErr |-> Len(errLines)]
    /\ UNCHANGED <<pc, launched, res, stdoutBuf, stderrBuf, curr, events, outRecv, errRecv,
                   outLines, errLines, exitAt, again>>

\* processAlgorithm after proc.run: feedback.isCanceled() is read now, and one
\* of the three branches reports the status.
Report ==
    /\ pc = "returned"
    /\ pc' = "done"
    /\ events' = events \o ReportCalls(canceled, res)
    /\ UNCHANGED <<canceled, launched, res, stdoutBuf, stderrBuf, curr, outRecv, errRecv,
                   outLines, errLines, cancelAt, exitAt, again>>

\* processAlgorithm is called again, with a feedback object of its own.  The
\* handlers of the new call do not exist before qgis_nadi_proc defines them:
\* the model lets them start from what the earlier call left, so that only
\* the assignments of qgis_nadi_proc make them empty.
NewInvocation ==
    /\ pc = "done"
    /\ pc' = "start"
    /\ again' = TRUE
    /\ canceled' = FALSE
    /\ launched' = FALSE
    /\ res' = 0
    /\ events' = <<>>
    /\ outRecv' = <<>>
    /\ errRecv' = <<>>
    /\ outLines' = <<>>
    /\ errLines' = <<>>
    /\ cancelAt' = NoCancel
    /\ exitAt' = NoExit
    /\ UNCHANGED <<stdoutBuf, stderrBuf, curr>>

Next ==
    \/ QgisNadiProc
    \/ RunStarted
    \/ RunLaunchFailed
    \/ StdoutChunk
    \/ StderrChunk
    \/ RunReturned
    \/ Cancel
    \/ Report
    \/ NewInvocation

Spec == Init /\ [][Next]_vars

-----------------------------------------------------------------------------
(* The classifier alone: one line, drawn from the bounded set of lines, is *)
(* given to the body of stdout_handlr's loop.                              *)

InitClassify ==
    /\ pc = "classify"
    /\ canceled = FALSE
    /\ launched = TRUE
    /\ res = 0
    /\ stdoutBuf = <<>>
    /\ stderrBuf = <<>>
    /\ curr \in {<<>>, <<"a">>}
    /\ events = <<>>
    /\ outRecv \in {l \in SeqsUpTo(LineChars, MaxLineLen) : ~contains(l, NL)}
    /\ errRecv = <<>>
    /\ outLines = <<>>
    /\ errLines = <<>>
    /\ cancelAt = NoCancel
    /\ exitAt = NoExit
    /\ again = FALSE

\* The loop body runs on the line held in outRecv.
ClassifyStep ==
    /\ pc = "classify"
    /\ pc' = "classified"
    /\ curr' = ClassifyLine(outRecv, curr).curr
    /\ events' = ClassifyLine(outRecv, curr).out
    /\ outLines' = <<outRecv>>
    /\ UNCHANGED <<canceled, launched, res, stdoutBuf, stderrBuf, outRecv, errRecv, errLines,
                   cancelAt, exitAt, again>>

NextClassify == ClassifyStep

SpecClassify == InitClassify /\ [][NextClassify]_vars

-----------------------------------------------------------------------------
(* The loop of stdout_handlr alone: lines drawn from a bounded set are given *)
(* one after the other to the loop body, _curr starting empty.               *)

InitFeed ==
    /\ pc = "feed"
    /\ canceled = FALSE
    /\ launched = TRUE
    /\ res = 0
    /\ stdoutBuf = <<>>
    /\ stderrBuf = <<>>
    /\ curr = <<>>
    /\ events = <<>>
    /\ outRecv = <<>>
    /\ errRecv = <<>>
    /\ outLines = <<>>
    /\ errLines = <<>>
    /\ cancelAt = NoCancel
    /\ exitAt = NoExit
    /\ again = FALSE

\* The loop body runs on one more line.
FeedLine ==
    /\ pc = "feed"
    /\ Len(outLines) < MaxFed
    /\ \E line \in SeqsUpTo(FedChars, MaxFedLen) :
          /\ curr' = ClassifyLine(line, curr).curr
          /\ events' = events \o ClassifyLine(line, curr).out
          /\ outLines' = Append(outLines, line)
    /\ UNCHANGED <<pc, canceled, launched, res, stdoutBuf, stderrBuf, outRecv, errRecv,
                   errLines, cancelAt, exitAt, again>>

NextFeed == FeedLine

SpecFeed == InitFeed /\ [][NextFeed]_vars

-----------------------------------------------------------------------------
(* What the claims speak of *)

\* The lines re-joined, a newline after each.
RECURSIVE Join(_)
Join(lines) == IF lines = <<>> THEN <<>> ELSE Head(lines) \o <<NL>> \o Join(Tail(lines))

\* The end-of-stream rule of the specification applied to what a handler has
\* emitted and still holds: a non-empty pending text is one more line.
Flushed(lines, buf) == IF buf # <<>> THEN Append(lines, buf) ELSE lines

\* The handlers of this invocation exist: qgis_nadi_proc has defined them and
\* the process has been run.
Attached == pc \in {"running", "returned", "done"}

\* The calls processAlgorithm makes to report the terminal status.
CompletedCall == PushInfo(<<"Completed">>)
CancelledCall == PushInfo(<<"Cancelled">>)
FailedCall == ReportError(<<"Error">>)

IsStatus(e) == e.kind = "error" \/ e \in {CompletedCall, CancelledCall}

\* The terminal statuses reported so far.
Statuses == SelectSeq(events, IsStatus)

\* The calls qgis_nadi_proc makes before the process is run.
IsBanner(e) ==
    \/ e.kind = "cmdinfo"
    \/ e \in {PushInfo(<<"Running Nadi Command:">>), PushInfo(<<"Output:">>)}

IsWarning(e) == e.kind = "warning"

\* A progress, phase-change or info call that is neither the banner nor the status.
IsOutputEvent(e) == e.kind \in {"phase", "progress", "info"} /\ ~IsStatus(e) /\ ~IsBanner(e)

-----------------------------------------------------------------------------
(* C1 *)

\* C1 (as claimed): the lines a stream's handler emits for chunks C1..Cn, the
\* pending text counted as a final line, are the lines it emits for the whole
\* text given as one chunk: they do not depend on the chunk boundaries.
C1_ChunkBoundaryInvariance ==
    LET one == StdoutHandlr(<<>>, <<>>, outRecv)
        oneErr == StderrHandlr(<<>>, errRecv)
    IN  Attached =>
            /\ Flushed(outLines, stdoutBuf) = Flushed(one.lines, one.buf)
            /\ Flushed(errLines, stderrBuf) = Flushed(oneErr.lines, oneErr.buf)

-----------------------------------------------------------------------------
(* C2 *)

\* C2 (as claimed): on each stream the emitted lines, re-joined with newlines,
\* followed by the pending text are exactly the text received.
C2_NoLossNoDuplication ==
    Attached =>
        /\ Join(outLines) \o stdoutBuf = outRecv
        /\ Join(errLines) \o stderrBuf = errRecv

-----------------------------------------------------------------------------
(* C3 *)

\* The calls made between the return of proc.run and the status report.
AfterExit == SubSeq(events, exitAt.nEvents + 1, Len(events) - 1)

\* C3 (as claimed): when the process has exited without cancellation, a
\* non-empty pending text of a stream has been emitted as one final event
\* (info or progress for the output stream, warning for the error stream)
\* before the status is reported.
C3_FlushOnExit ==
    (pc = "done" /\ launched /\ ~canceled) =>
        /\ exitAt.outBuf # <<>> =>
              \E i \in 1..Len(AfterExit) : AfterExit[i].kind \in {"info", "progress"}
        /\ exitAt.errBuf # <<>> =>
              \E i \in 1..Len(AfterExit) : AfterExit[i] = PushWarning(exitAt.errBuf)

-----------------------------------------------------------------------------
(* C4 *)

\* C4 (as claimed): once cancellation is requested while the process runs and
\* a stream holds a pending partial line, that stream's handler emits nothing
\* more (anything it emitted would begin with the pending text), and the
\* status reported is Cancelled.
C4_CancelDiscardsPartial ==
    /\ (cancelAt.pc = "running" /\ cancelAt.outBuf # <<>>) => Len(outLines) = cancelAt.nOut
    /\ (cancelAt.pc = "running" /\ cancelAt.errBuf # <<>>) => Len(errLines) = cancelAt.nErr
    /\ (cancelAt.pc = "running" /\ pc = "done") => Statuses = <<CancelledCall>>

-----------------------------------------------------------------------------
(* C5, under SpecClassify: outRecv is the line, events the calls made for it *)

\* The line read as L:P, split at its first colon.
LabelOf(line) == split1(line, ":")[1]
PercentOf(line) == split1(line, ":")[2]

IsPlainDigits(s) == Len(s) > 0 /\ \A i \in 1..Len(s) : s[i] \in Digits

\* The line is L:P with L free of colons and P a decimal integer in [0,100].
IsProgressLine(line) ==
    /\ contains(line, ":")
    /\ IsPlainDigits(PercentOf(line))
    /\ DigitsValue(PercentOf(line)) \in 0..100

\* The line has the shape label:integer.
HasProgressShape(line) == contains(line, ":") /\ IsInt(PercentOf(line))

HasKind(k) == \E i \in 1..Len(events) : events[i].kind = k

\* The line without the shape label:integer gives an info call carrying the
\* line and no progress call.
InfoForOtherLines ==
    (pc = "classified" /\ ~HasProgressShape(outRecv)) =>
        /\ events[Len(events)] = PushInfo(outRecv)
        /\ ~HasKind("progress")

\* C5 (as claimed): the line L:P gives a progress call with percent P and the
\* phase label L; every line without the shape label:integer gives an info
\* call carrying the line.
C5_ParseTotality_Claimed ==
    /\ (pc = "classified" /\ IsProgressLine(outRecv)) =>
          /\ events[Len(events)] = SetProgress(DigitsValue(PercentOf(outRecv)))
          /\ ~HasKind("info")
          /\ curr = LabelOf(outRecv)
    /\ InfoForOtherLines

\* C5 (amended): the line L:P gives a progress call with percent P and the
\* phase label L without its leading whitespace; every line without the
\* shape label:integer gives an info call carrying the line.
C5_ParseTotality ==
    /\ (pc = "classified" /\ IsProgressLine(outRecv)) =>
          /\ events[Len(events)] = SetProgress(DigitsValue(PercentOf(outRecv)))
          /\ ~HasKind("info")
          /\ curr = lstrip(LabelOf(outRecv))
    /\ InfoForOtherLines

\* The line " a:1" has been classified as progress 1 in phase "a".
C5_Witness ==
    /\ pc = "classified"
    /\ outRecv = <<" ", "a", ":", "1">>
    /\ curr = <<"a">>
    /\ events[Len(events)] = SetProgress(1)

-----------------------------------------------------------------------------
(* C6 *)

WarningTexts == [i \in 1..Len(SelectSeq(events, IsWarning)) |-> SelectSeq(events, IsWarning)[i].text]

\* C6: the warning calls are, in order, exactly the lines of the error
\* stream, one call a line, and the progress, phase-change and info calls
\* are exactly those of the output stream's lines: an error-stream line,
\* whatever its content, adds none.
C6_StreamRouting ==
    /\ WarningTexts = errLines
    /\ SelectSeq(events, IsOutputEvent) = StdoutLoop(outLines, <<>>).out

\* The error-stream line "a:1" has given a warning and no progress call.
C6_Witness ==
    /\ errLines = << <<"a", ":", "1">> >>
    /\ outLines = <<>>
    /\ events[Len(events)] = PushWarning(<<"a", ":", "1">>)
    /\ ~HasKind("progress")
    /\ ~HasKind("phase")

-----------------------------------------------------------------------------
(* C7 *)

\* C7: a run that launched the process has reported no status before
\* processAlgorithm's report and exactly one of Completed, Failed, Cancelled
\* after it.
C7_ExactlyOneStatus ==
    launched =>
        /\ pc # "done" => Statuses = <<>>
        /\ pc = "done" =>
              /\ Len(Statuses) = 1
              /\ Statuses[1] \in {CompletedCall, FailedCall, CancelledCall}

\* A cancelled run whose process returned a failure code has reported one status.
C7_Witness == pc = "done" /\ launched /\ canceled /\ res # 0 /\ Len(Statuses) = 1

-----------------------------------------------------------------------------
(* C8 *)

-----------------------------------------------------------------------------
(* C9 *)

\* C9 (as claimed): when the process exits before any cancellation request,
\* the status is Completed (code 0) or Failed (other codes), whatever is
\* requested afterwards; when cancellation is requested first, it is Cancelled.
C9_ExitCancelRace ==
    (pc = "done" /\ launched) =>
        /\ (~exitAt.canceled /\ res = 0) => Statuses = <<CompletedCall>>
        /\ (~exitAt.canceled /\ res # 0) => Statuses = <<FailedCall>>
        /\ exitAt.canceled => Statuses = <<CancelledCall>>

-----------------------------------------------------------------------------
(* C10 *)

\* C10 (as claimed): when the process could not be started, no call has been
\* made on the observer: no info, warning, progress or phase change, and no
\* status.
C10_LaunchFailure ==
    (pc \in {"returned", "done"} /\ ~launched) => events = <<>>

-----------------------------------------------------------------------------
(* C11 *)

\* C11: when the status has been reported it is the last call made on the
\* observer and the only status: every warning, info, progress and
\* phase-change call comes before it.
C11_EventsPrecedeStatus ==
    pc = "done" =>
        /\ IsStatus(events[Len(events)])
        /\ \A i \in 1..(Len(events) - 1) : ~IsStatus(events[i])

\* The process wrote the warning line "a" and exited with code 2: the warning
\* was delivered, then Failed.
C11_Witness ==
    /\ pc = "done"
    /\ ~canceled
    /\ res = 2
    /\ errLines = << <<"a">> >>
    /\ events[Len(events) - 1] = PushWarning(<<"a">>)
    /\ events[Len(events)] = FailedCall

-----------------------------------------------------------------------------
(* C12 *)

\* The part of the text that follows its last newline.
AfterLastNewline(text) == IF contains(text, NL) THEN rsplit(text, NL)[2] ELSE text

\* C12 (as claimed): a stream's pending buffer is exactly the part of the text
\* received on the stream that follows the last newline received.
C12_BufferIsSuffix ==
    Attached =>
        /\ stdoutBuf = AfterLastNewline(outRecv)
        /\ stderrBuf = AfterLastNewline(errRecv)

-----------------------------------------------------------------------------
(* C13, under SpecClassify *)

\* C13 (as claimed): a line with no colon, or whose text after the first colon
\* is no integer, gives exactly one info call and nothing else, and leaves
\* the tracked phase label as it was.
C13_MalformedLineRecovery ==
    [][(pc = "classify" /\ ~HasProgressShape(outRecv)) =>
          (events' = <<PushInfo(outRecv)>> /\ curr' = curr)]_vars

-----------------------------------------------------------------------------
(* C14, under SpecFeed: outLines are the lines given to the loop so far *)

\* The calls the claim describes for a sequence of progress lines, `announced`
\* being the phase label announced last (empty before the first).
RECURSIVE ExpectedCalls(_, _)
ExpectedCalls(lines, announced) ==
    IF lines = <<>> THEN <<>>
    ELSE LET label == lstrip(LabelOf(Head(lines)))
             percent == ParseInt(PercentOf(Head(lines)))
         IN  (IF label # announced THEN <<SetProgressText(label)>> ELSE <<>>)
             \o <<SetProgress(percent)>>
             \o ExpectedCalls(Tail(lines), label)

AllProgressLines == \A i \in 1..Len(outLines) : HasProgressShape(outLines[i])

\* C14: for a sequence of progress lines, a phase-change call is made for a
\* line exactly when its label differs from the label announced last (the
\* empty label before any call), it comes right before the line's progress
\* call, and the tracked label is the label of the last line.
C14_PhaseChangeDeduplication ==
    (AllProgressLines /\ outLines # <<>>) =>
        /\ events = ExpectedCalls(outLines, <<>>)
        /\ curr = lstrip(LabelOf(outLines[Len(outLines)]))

\* Two lines "a:1": one phase change, then two progress updates.
C14_Witness ==
    /\ outLines = << <<"a", ":", "1">>, <<"a", ":", "1">> >>
    /\ events = <<SetProgressText(<<"a">>), SetProgress(1), SetProgress(1)>>

-----------------------------------------------------------------------------
(* C15 *)

RECURSIVE Count(_, _)
Count(s, c) == IF s = <<>> THEN 0 ELSE (IF Head(s) = c THEN 1 ELSE 0) + Count(Tail(s), c)

IsEmptyInfo(e) == e = PushInfo(<<>>)
IsEmptyLine(l) == l = <<>>

\* The complete lines of a text: its newline-terminated segments.
CompleteLines(text) == SubSeq(split(text, NL), 1, Len(split(text, NL)) - 1)

\* C15 (as claimed): text with n newlines gives n lines on each stream, and
\* every empty complete line of the output stream gives an info call with
\* empty text.
C15_EmptyLinesPassThrough ==
    Attached =>
        /\ Len(outLines) = Count(outRecv, NL)
        /\ Len(errLines) = Count(errRecv, NL)
        /\ Len(SelectSeq(events, IsEmptyInfo))
              = Len(SelectSeq(CompleteLines(outRecv), IsEmptyLine))

-----------------------------------------------------------------------------
(* C16 *)

\* The text a step adds to what a stream has received.
NewOut == SubSeq(outRecv', Len(outRecv) + 1, Len(outRecv'))
NewErr == SubSeq(errRecv', Len(errRecv) + 1, Len(errRecv'))

\* A step of the running process in which a handler is called.
HandlerStep == pc = "running" /\ pc' = "running" /\ canceled' = canceled

\* C16: when the pending text followed by the chunk has no newline (the chunk
\* may be empty), the handler makes no call, emits no line, and the pending
\* text becomes the old one followed by the chunk; nothing else changes.
C16_BufferingWithoutNewline ==
    [][HandlerStep =>
          /\ (errRecv' = errRecv /\ ~contains(stdoutBuf \o NewOut, NL)) =>
                /\ stdoutBuf' = stdoutBuf \o NewOut
                /\ UNCHANGED <<events, curr, outLines, stderrBuf, errLines>>
          /\ (outRecv' = outRecv /\ ~contains(stderrBuf \o NewErr, NL)) =>
                /\ stderrBuf' = stderrBuf \o NewErr
                /\ UNCHANGED <<events, curr, errLines, stdoutBuf, outLines>>]_vars

\* The chunks "a" and ":" have been buffered on the output stream, and nothing
\* has been emitted for them.
C16_Witness ==
    /\ pc = "running"
    /\ outRecv = <<"a", ":">>
    /\ stdoutBuf = <<"a", ":">>
    /\ outLines = <<>>
    /\ ~HasKind("phase")

-----------------------------------------------------------------------------
(* C17 *)

\* C17: a step that receives text on one stream, or changes one stream's
\* pending buffer, leaves the other stream's buffer unchanged; error-stream
\* text never changes the tracked phase label; and every invocation, the
\* first or a later one, has both buffers and the phase label empty when
\* qgis_nadi_proc returns.
C17_Isolation ==
    /\ [](pc = "ready" => (stdoutBuf = <<>> /\ stderrBuf = <<>> /\ curr = <<>>))
    /\ [][HandlerStep =>
            /\ (outRecv' # outRecv \/ stdoutBuf' # stdoutBuf \/ curr' # curr) =>
                  (stderrBuf' = stderrBuf /\ errRecv' = errRecv)
            /\ (errRecv' # errRecv \/ stderrBuf' # stderrBuf) =>
                  (stdoutBuf' = stdoutBuf /\ outRecv' = outRecv /\ curr' = curr)]_vars

\* In a second invocation both streams hold a pending text of their own.
C17_Witness ==
    /\ again
    /\ pc = "running"
    /\ stdoutBuf = <<"a">>
    /\ outRecv = <<"a">>
    /\ stderrBuf = <<"1">>
    /\ errRecv = <<"1">>

-----------------------------------------------------------------------------
(* C18, under SpecClassify *)

\* C18 (as claimed): every percent given to a progress call is in 0..100.
C18_ProgressRange ==
    \A i \in 1..Len(events) : events[i].kind = "progress" => events[i].num[1] \in 0..100

-----------------------------------------------------------------------------
(* C19 *)

\* C19: the pending buffer of either stream never contains a newline.
C19_NoNewlineInBuffer == ~contains(stdoutBuf, NL) /\ ~contains(stderrBuf, NL)

\* Text with a newline was received and the part after it is pending.
C19_Witness ==
    /\ pc = "running"
    /\ outRecv = <<"a", NL, "1">>
    /\ stdoutBuf = <<"1">>
    /\ outLines = << <<"a">> >>

====
